---- MODULE Spec2Model ----
(***************************************************************************)
(* Shellish: a declarative command-line argument parser and dispatcher.    *)
(* The model covers the registry (addArgument), the token walk of parse,   *)
(* the arity resolution of processArgument, the callback dispatch and the  *)
(* required/default pass that ends a parse.                                *)
(*                                                                         *)
(* Strings are sequences of atoms.  The atom "-" is the dash character;    *)
(* every other atom stands for a non-empty piece of text without a dash.   *)
(* So "--file" is <<"-", "-", "file">>, "-f" is <<"-", "f">>, the empty    *)
(* string is << >>.  startsWith and substring are computed on that form.   *)
(***************************************************************************)
EXTENDS Integers, Sequences, FiniteSets, TLC

VARIABLES
    version,        \* options.version is set (a version string was configured)
    arguments,      \* Map longName -> ParsedArgument, in insertion order
    shortNameMap,   \* Map shortName -> longName
    thrown,         \* what the addArgument call just made threw, if anything
    parse           \* per parse call: its position, context and result

vars == <<version, arguments, shortNameMap, thrown, parse>>

\* The longest token sequence handed to parse.
MaxArgs == 3

----------------------------------------------------------------------------
(* Strings                                                                 *)

Dash == "-"
EmptyString == << >>

\* arg.startsWith('-')
StartsWithDash(s) == Len(s) >= 1 /\ s[1] = Dash

\* arg.startsWith('--')
StartsWithDashDash(s) == Len(s) >= 2 /\ s[1] = Dash /\ s[2] = Dash

\* arg.substring(n)
Substring(s, n) == SubSeq(s, n + 1, Len(s))

\* `--${longName}` and `-${shortName}`
LongFlag(longName) == <<Dash, Dash>> \o longName
ShortFlag(shortName) == <<Dash>> \o shortName

\* !x for a string or undefined: the empty string and undefined are falsy.
\* An absent shortName is modelled by the empty string: line 66 treats both alike.
Falsy(s) == s = EmptyString

----------------------------------------------------------------------------
(* Values held by parsedArguments and defaultValue                         *)

Undefined == [tag |-> "undefined", items |-> << >>]
True == [tag |-> "true", items |-> << >>]
StringValue(s) == [tag |-> "string", items |-> <<s>>]
ArrayValue(ss) == [tag |-> "array", items |-> ss]

\* Callbacks: what the host's function does when it is invoked.
Returns == [kind |-> "returns", message |-> ""]
Throws(m) == [kind |-> "throws", message |-> m]
Exits == [kind |-> "exits", message |-> ""]

----------------------------------------------------------------------------
(* Error texts.  A text is kept as the parts the template literal joins.   *)

NoError ==
    [kind |-> "", name |-> << >>, requires |-> 0, provided |-> 0,
     found |-> << >>, message |-> ""]

\* `Unknown argument: ${arg}`
UnknownArgument(arg) == [NoError EXCEPT !.kind = "Unknown argument: ", !.name = arg]

\* `Internal error: argument definition not found for ${longName}`
InternalError(longName) ==
    [NoError EXCEPT !.kind = "Internal error: argument definition not found for ",
                    !.name = longName]

\* `Argument --${longName} requires ${args} value(s), but only ${j} provided`
OnlyProvided(longName, n, j) ==
    [NoError EXCEPT !.kind = "Argument -- requires value(s), but only provided",
                    !.name = longName, !.requires = n, !.provided = j]

\* `Argument --${longName} requires ${args} value(s), but found ${...}`
ButFound(longName, n, nextArg) ==
    IF Falsy(nextArg)
    THEN [NoError EXCEPT !.kind = "Argument -- requires value(s), but found end of arguments",
                         !.name = longName, !.requires = n]
    ELSE [NoError EXCEPT !.kind = "Argument -- requires value(s), but found flag ",
                         !.name = longName, !.requires = n, !.found = nextArg]

\* `Required argument --${longName} is missing`
RequiredMissing(longName) ==
    [NoError EXCEPT !.kind = "Required argument -- is missing", !.name = longName]

\* `Error executing callback for --${longName}: ${error.message}`
CallbackError(longName, m) ==
    [NoError EXCEPT !.kind = "Error executing callback for --: ",
                    !.name = longName, !.message = m]

\* The error texts that contain 'requires N value(s)'.
RequiresKinds ==
    {"Argument -- requires value(s), but only provided",
     "Argument -- requires value(s), but found end of arguments",
     "Argument -- requires value(s), but found flag "}

----------------------------------------------------------------------------
(* The registry                                                            *)

\* The names thrown by addArgument.
NothingThrown == [kind |-> "none", name |-> << >>]
DuplicateLongName(longName) == [kind |-> "long name already exists", name |-> longName]
DuplicateShortName(shortName) == [kind |-> "short name already exists", name |-> shortName]

\* this.arguments.has(longName)
HasArgument(defs, longName) == \E k \in 1..Len(defs) : defs[k].longName = longName

\* this.arguments.get(longName); asked only where HasArgument holds
GetArgument(defs, longName) ==
    defs[CHOOSE k \in 1..Len(defs) : defs[k].longName = longName]

\* this.shortNameMap.set(shortName, longName)
SetShortName(snm, shortName, longName) ==
    [s \in DOMAIN snm \cup {shortName} |-> IF s = shortName THEN longName ELSE snm[s]]

\* addArgument storing the short name before it looks at the long name.
AddArgumentShortFirst(defs, snm, argOptions) ==
    LET snm2 == IF Falsy(argOptions.shortName) \/ argOptions.shortName \in DOMAIN snm
                THEN snm
                ELSE SetShortName(snm, argOptions.shortName, argOptions.longName)
    IN  IF HasArgument(defs, argOptions.longName)
        THEN [arguments |-> defs, shortNameMap |-> snm2,
              thrown |-> DuplicateLongName(argOptions.longName)]
        ELSE IF ~Falsy(argOptions.shortName) /\ argOptions.shortName \in DOMAIN snm
        THEN [arguments |-> defs, shortNameMap |-> snm,
              thrown |-> DuplicateShortName(argOptions.shortName)]
        ELSE [arguments |-> Append(defs, argOptions), shortNameMap |-> snm2,
              thrown |-> NothingThrown]

\* addArgument storing the definition before it looks at the short name.
AddArgumentLongFirst(defs, snm, argOptions) ==
    IF HasArgument(defs, argOptions.longName)
    THEN [arguments |-> defs, shortNameMap |-> snm,
          thrown |-> DuplicateLongName(argOptions.longName)]
    ELSE IF ~Falsy(argOptions.shortName) /\ argOptions.shortName \in DOMAIN snm
    THEN [arguments |-> Append(defs, argOptions), shortNameMap |-> snm,
          thrown |-> DuplicateShortName(argOptions.shortName)]
    ELSE [arguments |-> Append(defs, argOptions),
          shortNameMap |-> IF Falsy(argOptions.shortName) THEN snm
                           ELSE SetShortName(snm, argOptions.shortName, argOptions.longName),
          thrown |-> NothingThrown]

\* addArgument storing whatever it is given, as Map.set does.
AddArgumentOverwriting(defs, snm, argOptions) ==
    [arguments |->
        IF HasArgument(defs, argOptions.longName)
        THEN [k \in 1..Len(defs) |->
                IF defs[k].longName = argOptions.longName THEN argOptions ELSE defs[k]]
        ELSE Append(defs, argOptions),
     shortNameMap |-> IF Falsy(argOptions.shortName) THEN snm
                      ELSE SetShortName(snm, argOptions.shortName, argOptions.longName),
     thrown |-> NothingThrown]

\* addArgument as a function of the registry before the call: the registry
\* after it and what was thrown.
AddArgumentResult(defs, snm, argOptions) ==
    IF HasArgument(defs, argOptions.longName)
    THEN [arguments |-> defs, shortNameMap |-> snm,
          thrown |-> DuplicateLongName(argOptions.longName)]
    ELSE IF ~Falsy(argOptions.shortName) /\ argOptions.shortName \in DOMAIN snm
    THEN [arguments |-> defs, shortNameMap |-> snm,
          thrown |-> DuplicateShortName(argOptions.shortName)]
    ELSE [arguments |-> Append(defs, argOptions),
          shortNameMap |-> IF Falsy(argOptions.shortName) THEN snm
                           ELSE SetShortName(snm, argOptions.shortName, argOptions.longName),
          thrown |-> NothingThrown]

\* The two definitions the constructor registers.
HelpArgument ==
    [longName |-> <<"help">>, shortName |-> <<"h">>, args |-> 0, required |-> FALSE,
     defaultValue |-> Undefined, callback |-> Exits]

VersionArgument ==
    [longName |-> <<"version">>, shortName |-> <<"v">>, args |-> 0, required |-> FALSE,
     defaultValue |-> Undefined, callback |-> Exits]

\* The registry a constructor leaves behind.
Constructed(withVersion) ==
    LET none == [s \in {} |-> << >>]
        help == AddArgumentResult(<< >>, none, HelpArgument)
    IN  IF withVersion
        THEN AddArgumentResult(help.arguments, help.shortNameMap, VersionArgument)
        ELSE help

----------------------------------------------------------------------------
(* processArgument, up to the callback                                     *)

\* args[k] for a 0-based k.  Outside the array JavaScript gives undefined,
\* which every reader here only tests with !x, as it does the empty string.
At(args, k) == IF k >= 0 /\ k < Len(args) THEN args[k + 1] ELSE EmptyString

\* The unlimited branch with the test for a dash left out of line 198.
RECURSIVE CollectUnlimitedPastFlags(_, _, _)
CollectUnlimitedPastFlags(args, nextIndex, j) ==
    IF nextIndex + j < Len(args)
    THEN IF Falsy(At(args, nextIndex + j))
         THEN j
         ELSE CollectUnlimitedPastFlags(args, nextIndex, j + 1)
    ELSE j

\* The while loop of the unlimited branch: the final j.
RECURSIVE CollectUnlimited(_, _, _)
CollectUnlimited(args, nextIndex, j) ==
    IF nextIndex + j < Len(args)
    THEN LET nextArg == At(args, nextIndex + j)
         IN  IF Falsy(nextArg) \/ StartsWithDash(nextArg)
             THEN j
             ELSE CollectUnlimited(args, nextIndex, j + 1)
    ELSE j

\* args[from], ..., args[from + n - 1], 0-based: what argValues.push collected
Collected(args, from, n) == [k \in 1..n |-> At(args, from + k - 1)]

\* The fixed branch with the test for a dash left out of line 217.
RECURSIVE CollectFixedPastFlags(_, _, _, _)
CollectFixedPastFlags(argumentDef, args, nextIndex, j) ==
    IF j < argumentDef.args
    THEN IF nextIndex + j >= Len(args)
         THEN [success |-> FALSE, nextIndex |-> nextIndex + j, argValues |-> << >>,
               error |-> OnlyProvided(argumentDef.longName, argumentDef.args, j)]
         ELSE IF Falsy(At(args, nextIndex + j))
         THEN [success |-> FALSE, nextIndex |-> nextIndex + j, argValues |-> << >>,
               error |-> ButFound(argumentDef.longName, argumentDef.args,
                                  At(args, nextIndex + j))]
         ELSE CollectFixedPastFlags(argumentDef, args, nextIndex, j + 1)
    ELSE [success |-> TRUE, nextIndex |-> nextIndex + argumentDef.args,
          argValues |-> Collected(args, nextIndex, j), error |-> NoError]

\* The for loop of the fixed branch, from iteration j on.
RECURSIVE CollectFixed(_, _, _, _)
CollectFixed(argumentDef, args, nextIndex, j) ==
    IF j < argumentDef.args
    THEN IF nextIndex + j >= Len(args)
         THEN [success |-> FALSE, nextIndex |-> nextIndex + j, argValues |-> << >>,
               error |-> OnlyProvided(argumentDef.longName, argumentDef.args, j)]
         ELSE LET nextArg == At(args, nextIndex + j)
              IN  IF Falsy(nextArg) \/ StartsWithDash(nextArg)
                  THEN [success |-> FALSE, nextIndex |-> nextIndex + j,
                        argValues |-> << >>,
                        error |-> ButFound(argumentDef.longName, argumentDef.args, nextArg)]
                  ELSE CollectFixed(argumentDef, args, nextIndex, j + 1)
    ELSE [success |-> TRUE, nextIndex |-> nextIndex + argumentDef.args,
          argValues |-> Collected(args, nextIndex, j),
          error |-> NoError]

\* The value collection of processArgument for the flag at currentIndex.
CollectValues(argumentDef, args, currentIndex) ==
    LET nextIndex == currentIndex + 1
    IN  IF argumentDef.args = -1
        THEN LET j == CollectUnlimited(args, nextIndex, 0)
             IN  [success |-> TRUE, nextIndex |-> nextIndex + j,
                  argValues |-> Collected(args, nextIndex, j), error |-> NoError]
        ELSE CollectFixed(argumentDef, args, nextIndex, 0)

\* The normalisation deciding by the number of collected values instead of args.
NormalizedByCount(argumentDef, argValues) ==
    IF Len(argValues) = 0 /\ argumentDef.args = 0 THEN True
    ELSE IF Len(argValues) = 1 THEN StringValue(argValues[1])
    ELSE ArrayValue(argValues)

\* What is stored in context.parsedArguments[longName].
Normalized(argumentDef, argValues) ==
    IF argumentDef.args = 0 THEN True
    ELSE IF argumentDef.args = 1
    THEN (IF Len(argValues) >= 1 THEN StringValue(argValues[1]) ELSE Undefined)
    ELSE ArrayValue(argValues)

\* obj[key] = value on a plain object
Put(obj, key, value) ==
    [n \in DOMAIN obj \cup {key} |-> IF n = key THEN value ELSE obj[n]]

\* The property names every plain object inherits from Object.prototype.
ObjectPrototypeKeys ==
    {<<"constructor">>, <<"toString">>, <<"valueOf">>, <<"hasOwnProperty">>}

\* key in obj, for obj created by the literal {}
In(key, obj) == key \in DOMAIN obj \/ key \in ObjectPrototypeKeys

----------------------------------------------------------------------------
(* One parse call                                                          *)

\* options.name, as the host configured it.
CommandName == <<"my-tool">>

NoPending == [longName |-> << >>, nextIndex |-> 0]

\* A parse call that has not been made.
Idle ==
    [pc |-> "idle", args |-> << >>, i |-> 0,
     command |-> << >>, remainingArgs |-> << >>, allArgs |-> << >>,
     parsedArguments |-> [n \in {} |-> Undefined],
     calls |-> << >>, pending |-> NoPending, success |-> FALSE, error |-> NoError]

\* A parse call taking up the entries the parse calls before it have recorded,
\* as it would with a context kept on the parser.
StartedOnSharedContext(args) ==
    LET names == UNION { DOMAIN parse[q].parsedArguments : q \in DOMAIN parse }
    IN  [Idle EXCEPT !.pc = "loop", !.args = args,
                     !.command = CommandName, !.remainingArgs = args, !.allArgs = args,
                     !.parsedArguments =
                        [n \in names |->
                            parse[CHOOSE q \in DOMAIN parse :
                                    n \in DOMAIN parse[q].parsedArguments].parsedArguments[n]]]

\* Lines 84-92: the fresh context and the cursor.
Started(args) ==
    [Idle EXCEPT !.pc = "loop", !.args = args,
                 !.command = CommandName, !.remainingArgs = args, !.allArgs = args]

\* return { success: false, error }
Failed(st, error) ==
    [st EXCEPT !.pc = "done", !.success = FALSE, !.error = error, !.pending = NoPending]

\* processArgument calling the callback without awaiting it.
DispatchedNotAwaited(st, argumentDef) ==
    LET r == CollectValues(argumentDef, st.args, st.i)
    IN  IF ~r.success
        THEN Failed(st, r.error)
        ELSE [st EXCEPT
                !.i = r.nextIndex,
                !.parsedArguments =
                    Put(st.parsedArguments, argumentDef.longName,
                        Normalized(argumentDef, r.argValues)),
                !.calls = Append(st.calls,
                    [longName |-> argumentDef.longName, argValues |-> r.argValues,
                     at |-> st.i])]

\* processArgument calling the callback before it records the value.
DispatchedUnrecorded(st, argumentDef) ==
    LET r == CollectValues(argumentDef, st.args, st.i)
    IN  IF ~r.success
        THEN Failed(st, r.error)
        ELSE [st EXCEPT
                !.pc = "callback",
                !.calls = Append(st.calls,
                    [longName |-> argumentDef.longName, argValues |-> r.argValues,
                     at |-> st.i]),
                !.pending = [longName |-> argumentDef.longName, nextIndex |-> r.nextIndex]]

\* processArgument up to and including the call of the callback, which is
\* awaited: the value is recorded and the callback is in flight.
Dispatched(st, argumentDef) ==
    LET r == CollectValues(argumentDef, st.args, st.i)
    IN  IF ~r.success
        THEN Failed(st, r.error)
        ELSE [st EXCEPT
                !.pc = "callback",
                !.parsedArguments =
                    Put(st.parsedArguments, argumentDef.longName,
                        Normalized(argumentDef, r.argValues)),
                !.calls = Append(st.calls,
                    [longName |-> argumentDef.longName, argValues |-> r.argValues,
                     at |-> st.i]),
                !.pending = [longName |-> argumentDef.longName, nextIndex |-> r.nextIndex]]

\* The long form branch skipping a token it does not know.
LongFormSkipping(st, defs, arg) ==
    IF ~HasArgument(defs, Substring(arg, 2))
    THEN [st EXCEPT !.i = st.i + 1]
    ELSE Dispatched(st, GetArgument(defs, Substring(arg, 2)))

\* Lines 101-111: the definition a long form token names.
LongForm(st, defs, arg) ==
    LET longName == Substring(arg, 2)
    IN  IF ~HasArgument(defs, longName)
        THEN Failed(st, UnknownArgument(arg))
        ELSE Dispatched(st, GetArgument(defs, longName))

\* The short form branch taking every short flag for a flag without values.
ShortFormAsFlag(st, defs, snm, arg) ==
    IF Substring(arg, 1) \notin DOMAIN snm \/ Falsy(snm[Substring(arg, 1)])
    THEN Failed(st, UnknownArgument(arg))
    ELSE IF ~HasArgument(defs, snm[Substring(arg, 1)])
    THEN Failed(st, InternalError(snm[Substring(arg, 1)]))
    ELSE Dispatched(st, [GetArgument(defs, snm[Substring(arg, 1)]) EXCEPT !.args = 0])

\* Lines 119-137: the definition a short form token names.
ShortForm(st, defs, snm, arg) ==
    LET shortName == Substring(arg, 1)
    IN  IF shortName \notin DOMAIN snm \/ Falsy(snm[shortName])
        THEN Failed(st, UnknownArgument(arg))
        ELSE IF ~HasArgument(defs, snm[shortName])
        THEN Failed(st, InternalError(snm[shortName]))
        ELSE Dispatched(st, GetArgument(defs, snm[shortName]))

\* One iteration of the while loop of parse, as far as the next await.
Iteration(st, defs, snm) ==
    LET arg == At(st.args, st.i)
    IN  IF Falsy(arg) THEN [st EXCEPT !.i = st.i + 1]
        ELSE IF StartsWithDashDash(arg) THEN LongForm(st, defs, arg)
        ELSE IF StartsWithDash(arg) /\ Len(arg) > 1 THEN ShortForm(st, defs, snm, arg)
        ELSE [st EXCEPT !.i = st.i + 1]

\* The settling with a throwing callback swallowed and the walk going on.
SettledSwallowing(st, argumentDef) ==
    IF argumentDef.callback.kind = "exits"
    THEN [st EXCEPT !.pc = "exited", !.pending = NoPending]
    ELSE [st EXCEPT !.pc = "loop", !.i = st.pending.nextIndex, !.pending = NoPending]

\* The awaited callback settles: lines 232-242 and the caller's i = result.nextIndex.
Settled(st, argumentDef) ==
    IF argumentDef.callback.kind = "throws"
    THEN Failed(st, CallbackError(argumentDef.longName, argumentDef.callback.message))
    ELSE IF argumentDef.callback.kind = "exits"
    THEN [st EXCEPT !.pc = "exited", !.pending = NoPending]
    ELSE [st EXCEPT !.pc = "loop", !.i = st.pending.nextIndex, !.pending = NoPending]

\* Lines 151-165 from the k-th definition on, in insertion order.
RECURSIVE RequiredPass(_, _, _)
RequiredPass(st, defs, k) ==
    IF k > Len(defs)
    THEN [st EXCEPT !.pc = "done", !.success = TRUE]
    ELSE LET argDef == defs[k]
         IN  IF argDef.required /\ ~In(argDef.longName, st.parsedArguments)
             THEN IF argDef.defaultValue # Undefined
                  THEN RequiredPass(
                          [st EXCEPT !.parsedArguments =
                              Put(st.parsedArguments, argDef.longName, argDef.defaultValue)],
                          defs, k + 1)
                  ELSE Failed(st, RequiredMissing(argDef.longName))
             ELSE RequiredPass(st, defs, k + 1)

----------------------------------------------------------------------------
(* A whole parse call run without interruption, as a function of its       *)
(* tokens and the registry.                                                *)
RECURSIVE Run(_, _, _)
Run(st, defs, snm) ==
    IF st.pc = "loop"
    THEN IF st.i < Len(st.args)
         THEN Run(Iteration(st, defs, snm), defs, snm)
         ELSE RequiredPass(st, defs, 1)
    ELSE IF st.pc = "callback"
    THEN Run(Settled(st, GetArgument(defs, st.pending.longName)), defs, snm)
    ELSE st

ParseAlone(args, defs, snm) == Run(Started(args), defs, snm)

----------------------------------------------------------------------------
(* Inputs                                                                  *)

Arg(longName, shortName, args, required, defaultValue, callback) ==
    [longName |-> longName, shortName |-> shortName, args |-> args,
     required |-> required, defaultValue |-> defaultValue, callback |-> callback]

File == <<"file">>
Out == <<"out">>
DefaultText == StringValue(<<"default-value">>)

\* The argument options the host hands to addArgument.
ArgumentOptions ==
    { Arg(File, <<"f">>, 2, FALSE, Undefined, Returns),
      Arg(File, <<"f">>, -1, FALSE, Undefined, Returns),
      Arg(File, <<"f">>, 0, FALSE, Undefined, Throws("Callback error")),
      Arg(File, <<"f">>, 1, TRUE, Undefined, Returns),
      Arg(File, EmptyString, 1, TRUE, DefaultText, Returns),
      Arg(File, EmptyString, 1, FALSE, DefaultText, Returns),
      Arg(Out, <<"o">>, 0, FALSE, Undefined, Returns),
      Arg(Out, <<"o">>, 1, TRUE, Undefined, Returns),
      Arg(<<"help">>, <<"x">>, 0, FALSE, Undefined, Returns),
      Arg(<<"constructor">>, <<"o">>, 1, TRUE, Undefined, Returns),
      Arg(<<"constructor">>, <<"o">>, 1, TRUE, DefaultText, Returns) }

\* The tokens a command line is made of.
Tokens ==
    { LongFlag(File), ShortFlag(<<"f">>), LongFlag(Out),
      <<"a">>, <<"b">>, EmptyString }

\* The token sequences handed to parse.
ArgLists == UNION { [1..n -> Tokens] : n \in 0..MaxArgs }

\* The parse calls of the specification.
Parsers == {"p1"}

----------------------------------------------------------------------------
(* The state machine                                                       *)

Init ==
    /\ version \in BOOLEAN
    /\ arguments = Constructed(version).arguments
    /\ shortNameMap = Constructed(version).shortNameMap
    /\ thrown = NothingThrown
    /\ parse = [p \in Parsers |-> Idle]

\* addArgument(argOptions), called while the host sets the parser up
AddArgument(argOptions) ==
    /\ \A p \in DOMAIN parse : parse[p].pc = "idle"
    /\ LET r == AddArgumentResult(arguments, shortNameMap, argOptions)
       IN  /\ arguments' = r.arguments
           /\ shortNameMap' = r.shortNameMap
           /\ thrown' = r.thrown
    /\ UNCHANGED <<version, parse>>

\* parse(args) is called; an exception of the setup has been handled by then
Parse(p, args) ==
    /\ parse[p].pc = "idle"
    /\ parse' = [parse EXCEPT ![p] = Started(args)]
    /\ thrown' = NothingThrown
    /\ UNCHANGED <<version, arguments, shortNameMap>>

\* one iteration of the token walk
Loop(p) ==
    /\ parse[p].pc = "loop"
    /\ parse[p].i < Len(parse[p].args)
    /\ parse' = [parse EXCEPT ![p] = Iteration(parse[p], arguments, shortNameMap)]
    /\ UNCHANGED <<version, arguments, shortNameMap, thrown>>

\* the callback in flight settles
Settle(p) ==
    /\ parse[p].pc = "callback"
    /\ parse' = [parse EXCEPT ![p] =
                    Settled(parse[p], GetArgument(arguments, parse[p].pending.longName))]
    /\ UNCHANGED <<version, arguments, shortNameMap, thrown>>

\* the walk is over: the required/default pass and the return
Finish(p) ==
    /\ parse[p].pc = "loop"
    /\ parse[p].i >= Len(parse[p].args)
    /\ parse' = [parse EXCEPT ![p] = RequiredPass(parse[p], arguments, 1)]
    /\ UNCHANGED <<version, arguments, shortNameMap, thrown>>

Next ==
    \/ \E argOptions \in ArgumentOptions : AddArgument(argOptions)
    \/ \E p \in Parsers, args \in ArgLists : Parse(p, args)
    \/ \E p \in Parsers : Loop(p)
    \/ \E p \in Parsers : Settle(p)
    \/ \E p \in Parsers : Finish(p)

Spec == Init /\ [][Next]_vars

----------------------------------------------------------------------------
(* The setup of a host: a constructed parser and addArgument calls only    *)

Verbose == <<"verbose">>

\* The argument options of a host that also tries the names of the
\* definitions the constructor registers.
SetupOptions ==
    ArgumentOptions \cup
        { Arg(Verbose, <<"v">>, 0, FALSE, Undefined, Returns),
          Arg(Out, <<"h">>, 0, FALSE, Undefined, Returns),
          Arg(<<"help">>, <<"h">>, 0, FALSE, Undefined, Returns),
          Arg(<<"version">>, <<"w">>, 0, FALSE, Undefined, Returns),
          Arg(<<"version">>, <<"v">>, 1, FALSE, Undefined, Returns) }

NextSetup == \E argOptions \in SetupOptions : AddArgument(argOptions)

SpecSetup == Init /\ [][NextSetup]_vars

----------------------------------------------------------------------------
(* A host that registers arities outside -1, 0 and N >= 1                  *)

\* The most callback invocations followed in one parse.
MaxCalls == 3

\* addArgument stores whatever number it is given as args.
AnyArityOptions ==
    { Arg(File, <<"f">>, -2, FALSE, Undefined, Returns),
      Arg(File, <<"f">>, -3, FALSE, Undefined, Returns),
      Arg(File, <<"f">>, 1, FALSE, Undefined, Returns),
      Arg(Out, <<"o">>, 0, FALSE, Undefined, Returns),
      Arg(Out, <<"o">>, -1, TRUE, Undefined, Returns) }

\* one iteration of the token walk, followed up to MaxCalls invocations
LoopBounded(p) ==
    /\ Len(parse[p].calls) < MaxCalls
    /\ Loop(p)

NextAnyArity ==
    \/ \E argOptions \in AnyArityOptions : AddArgument(argOptions)
    \/ \E p \in Parsers, args \in ArgLists : Parse(p, args)
    \/ \E p \in Parsers : LoopBounded(p)
    \/ \E p \in Parsers : Settle(p)
    \/ \E p \in Parsers : Finish(p)

SpecAnyArity == Init /\ [][NextAnyArity]_vars

----------------------------------------------------------------------------
(* Two parse calls on the same parser, interleaved where they await        *)

TwoParsers == {"p1", "p2"}

\* The longest token sequence handed to an interleaved parse.
MaxInterleavedArgs == 2

InterleavedTokens == { LongFlag(File), LongFlag(Out), <<"a">> }

InterleavedArgLists == UNION { [1..n -> InterleavedTokens] : n \in 0..MaxInterleavedArgs }

InterleavedOptions ==
    { Arg(File, <<"f">>, 1, FALSE, Undefined, Returns),
      Arg(File, <<"f">>, 0, FALSE, Undefined, Throws("Callback error")),
      Arg(Out, <<"o">>, -1, TRUE, DefaultText, Returns) }

\* A parser constructed without a version, no parse called yet.
InitInterleaved ==
    /\ version = FALSE
    /\ arguments = Constructed(version).arguments
    /\ shortNameMap = Constructed(version).shortNameMap
    /\ thrown = NothingThrown
    /\ parse = [p \in TwoParsers |-> Idle]

NextInterleaved ==
    \/ \E argOptions \in InterleavedOptions : AddArgument(argOptions)
    \/ \E p \in TwoParsers, args \in InterleavedArgLists : Parse(p, args)
    \/ \E p \in TwoParsers : Loop(p)
    \/ \E p \in TwoParsers : Settle(p)
    \/ \E p \in TwoParsers : Finish(p)

SpecInterleaved == InitInterleaved /\ [][NextInterleaved]_vars

----------------------------------------------------------------------------
(* Vocabulary of the properties                                            *)

\* The registered definitions a token names: by '--' and its long name, or
\* by a single '-' and its short name.
DefsNamed(tok) ==
    { arguments[k] : k \in { n \in 1..Len(arguments) :
        \/ tok = <<"-", "-">> \o arguments[n].longName
        \/ /\ arguments[n].shortName # << >>
           /\ tok = <<"-">> \o arguments[n].shortName
           /\ ~(Len(tok) >= 2 /\ tok[2] = "-") } }

\* The token at 0-based index k exists, is not empty and does not start with '-'.
IsValue(args, k) ==
    /\ k >= 0
    /\ k < Len(args)
    /\ args[k + 1] # << >>
    /\ args[k + 1][1] # "-"

\* The tokens at the 0-based indices from .. from + n - 1.
TokensFrom(args, from, n) == [k \in 1..n |-> args[from + k]]

\* The length of the longest run of values that starts at 0-based index from.
RunLength(args, from) ==
    CHOOSE n \in 0..Len(args) :
        /\ \A k \in 0..(n - 1) : IsValue(args, from + k)
        /\ ~IsValue(args, from + n)

\* A step of parse call p that starts an iteration of the walk.
WalkStep(p) ==
    /\ parse[p].pc = "loop"
    /\ parse[p].i < Len(parse[p].args)
    /\ parse'[p] # parse[p]

\* A step of parse call p in which the callback in flight returns.
ReturnStep(p) ==
    /\ parse[p].pc = "callback"
    /\ parse'[p].pc = "loop"

\* The last callback invocation of a parse.
LastCall(st) == st.calls[Len(st.calls)]

----------------------------------------------------------------------------
(* C1: a flag of fixed arity N >= 1 at index i is processed successfully   *)
(* exactly when the N tokens after it all exist, are non-empty and do not  *)
(* start with '-'.  Then its callback receives those N tokens in order and *)
(* the cursor moves to i+N+1.  Otherwise parse fails with a 'requires N    *)
(* value(s)' error, the callback is not invoked and nothing is recorded.   *)
C1_Step(p) ==
    LET st == parse[p]
        st2 == parse'[p]
    IN  /\ WalkStep(p) =>
            \A d \in DefsNamed(At(st.args, st.i)) :
                d.args >= 1 =>
                    IF \A k \in 1..d.args : IsValue(st.args, st.i + k)
                    THEN /\ st2.pc = "callback"
                         /\ st2.calls = Append(st.calls,
                                [longName |-> d.longName,
                                 argValues |-> TokensFrom(st.args, st.i + 1, d.args),
                                 at |-> st.i])
                         /\ st2.pending.nextIndex = st.i + d.args + 1
                    ELSE /\ st2.pc = "done"
                         /\ ~st2.success
                         /\ st2.error.kind \in RequiresKinds
                         /\ st2.error.requires = d.args
                         /\ st2.error.name = d.longName
                         /\ st2.calls = st.calls
                         /\ st2.parsedArguments = st.parsedArguments
        /\ (ReturnStep(p) /\ LastCall(st).longName \in
                { d.longName : d \in { e \in DefsNamed(At(st.args, LastCall(st).at)) :
                                        e.args >= 1 } })
                => st2.i = LastCall(st).at + Len(LastCall(st).argValues) + 1

C1_FixedArity == [][\A p \in Parsers : C1_Step(p)]_vars

\* C1 witness: a flag of arity 2 was given two distinct values and its callback
\* has returned, the cursor standing behind the values.
C1_Witness ==
    \E p \in Parsers :
        /\ parse[p].pc = "loop"
        /\ Len(parse[p].calls) = 1
        /\ parse[p].calls[1].argValues = << <<"a">>, <<"b">> >>
        /\ parse[p].i = 3
        /\ \E d \in DefsNamed(parse[p].args[1]) : d.args = 2

----------------------------------------------------------------------------
(* C2: a flag of arity -1 at index i never fails to resolve.  It collects  *)
(* exactly the longest run of non-empty, dash-free tokens that follows it, *)
(* the cursor moves to the first token after the run, and a flag token     *)
(* that ended the run is processed as a flag in the same parse.            *)
C2_Step(p) ==
    LET st == parse[p]
        st2 == parse'[p]
    IN  /\ WalkStep(p) =>
            \A d \in DefsNamed(At(st.args, st.i)) :
                d.args = -1 =>
                    LET n == RunLength(st.args, st.i + 1)
                    IN  /\ st2.pc = "callback"
                        /\ st2.calls = Append(st.calls,
                                [longName |-> d.longName,
                                 argValues |-> TokensFrom(st.args, st.i + 1, n),
                                 at |-> st.i])
                        /\ st2.pending.nextIndex = st.i + 1 + n
        /\ (ReturnStep(p) /\ \E d \in DefsNamed(At(st.args, LastCall(st).at)) : d.args = -1)
                => st2.i = LastCall(st).at + 1 + RunLength(st.args, LastCall(st).at + 1)
        \* the flag that ended the run is dispatched next
        /\ (/\ WalkStep(p)
            /\ st.calls # << >>
            /\ st.i = LastCall(st).at + 1 + Len(LastCall(st).argValues)
            /\ \E d \in DefsNamed(At(st.args, LastCall(st).at)) : d.args = -1)
                => \A d2 \in DefsNamed(At(st.args, st.i)) :
                        \/ st2.pc = "callback" /\ LastCall(st2).longName = d2.longName
                                               /\ LastCall(st2).at = st.i
                        \/ st2.pc = "done" /\ st2.error.name = d2.longName
                                           /\ st2.error.kind \in RequiresKinds

C2_Unbounded == [][\A p \in Parsers : C2_Step(p)]_vars

\* C2 witness: an unbounded flag collected one value, stopped at a flag token,
\* and that flag was dispatched next.
C2_Witness ==
    \E p \in Parsers :
        /\ Len(parse[p].calls) = 2
        /\ \E d \in DefsNamed(parse[p].args[1]) : d.args = -1
        /\ parse[p].calls[1].argValues = << <<"a">> >>
        /\ parse[p].calls[2].at = 2

----------------------------------------------------------------------------
(* C3: the value recorded for a resolved flag under its long name is true  *)
(* for arity 0, the single collected string itself for arity 1, and the    *)
(* ordered sequence of the collected strings for arity >= 2 and arity -1,  *)
(* also when an unbounded flag collected no value or one value.            *)
C3_Recorded ==
    \A p \in Parsers :
        parse[p].pc = "callback" =>
            LET st == parse[p]
                c == LastCall(st)
            IN  \A d \in DefsNamed(At(st.args, c.at)) :
                    /\ d.longName \in DOMAIN st.parsedArguments
                    /\ st.parsedArguments[d.longName] =
                         IF d.args = 0 THEN [tag |-> "true", items |-> << >>]
                         ELSE IF d.args = 1
                         THEN [tag |-> "string", items |-> <<c.argValues[1]>>]
                         ELSE [tag |-> "array", items |-> c.argValues]

\* C3 witness: an unbounded flag that collected exactly one value is recorded
\* as a one-element sequence.
C3_Witness ==
    \E p \in Parsers :
        /\ parse[p].pc = "callback"
        /\ \E d \in DefsNamed(At(parse[p].args, LastCall(parse[p]).at)) :
                /\ d.args = -1
                /\ Len(LastCall(parse[p]).argValues) = 1
                /\ parse[p].parsedArguments[d.longName].tag = "array"

----------------------------------------------------------------------------
(* C4: a token '--x' with x no registered long name, or a token '-x' of    *)
(* more than one character with x no registered short name, ends the parse *)
(* with the failure 'Unknown argument: <token>'.  Nothing after it is      *)
(* processed: no callback is invoked, the required/default pass is not     *)
(* run, and what earlier flags did stays.                                  *)
RegisteredLongNames == { arguments[k].longName : k \in 1..Len(arguments) }

RegisteredShortNames == { arguments[k].shortName : k \in 1..Len(arguments) } \ { << >> }

IsUnknown(tok) ==
    \/ /\ Len(tok) >= 2 /\ tok[1] = "-" /\ tok[2] = "-"
       /\ SubSeq(tok, 3, Len(tok)) \notin RegisteredLongNames
    \/ /\ Len(tok) >= 2 /\ tok[1] = "-" /\ tok[2] # "-"
       /\ SubSeq(tok, 2, Len(tok)) \notin RegisteredShortNames

C4_Step(p) ==
    LET st == parse[p]
        st2 == parse'[p]
    IN  /\ (WalkStep(p) /\ IsUnknown(At(st.args, st.i))) =>
                /\ st2.pc = "done"
                /\ ~st2.success
                /\ st2.error.kind = "Unknown argument: "
                /\ st2.error.name = At(st.args, st.i)
                /\ st2.calls = st.calls
                /\ st2.parsedArguments = st.parsedArguments
                /\ st2.i = st.i
        /\ st.pc = "done" => st2 = st

C4_UnknownArgument == [][\A p \in Parsers : C4_Step(p)]_vars

\* C4 witness: a parse stopped at an unknown token after one callback had run,
\* with a token left behind it and a required default that was never filled in.
C4_Witness ==
    \E p \in Parsers :
        /\ parse[p].pc = "done"
        /\ parse[p].error.kind = "Unknown argument: "
        /\ Len(parse[p].calls) = 1
        /\ parse[p].i + 1 < Len(parse[p].args)
        /\ \E k \in 1..Len(arguments) :
                /\ arguments[k].required
                /\ arguments[k].defaultValue.tag # "undefined"
                /\ arguments[k].longName \notin DOMAIN parse[p].parsedArguments

----------------------------------------------------------------------------
(* C5: when the walk ends without failure, the definitions are visited in  *)
(* registration order; if some definition is required, has no entry in     *)
(* parsedArguments and has no default, parse fails with 'Required argument *)
(* --<longName> is missing' for the earliest registered of them, and       *)
(* otherwise parse succeeds.                                               *)
WalkFailureKinds ==
    RequiresKinds \cup
        {"Unknown argument: ", "Error executing callback for --: ",
         "Internal error: argument definition not found for "}

\* The parse call has returned and its walk did not fail.
WalkCompleted(st) == st.pc = "done" /\ st.error.kind \notin WalkFailureKinds

\* The positions of the required definitions without entry and without default.
MissingRequired(st) ==
    { k \in 1..Len(arguments) :
        /\ arguments[k].required
        /\ arguments[k].longName \notin DOMAIN st.parsedArguments
        /\ arguments[k].defaultValue.tag = "undefined" }

C5_RequiredMissing ==
    \A p \in Parsers :
        WalkCompleted(parse[p]) =>
            LET missing == MissingRequired(parse[p])
            IN  IF missing # {}
                THEN /\ ~parse[p].success
                     /\ parse[p].error.kind = "Required argument -- is missing"
                     /\ parse[p].error.name =
                            arguments[CHOOSE k \in missing : \A m \in missing : k <= m].longName
                ELSE parse[p].success

----------------------------------------------------------------------------
(* C6: a callback that raises with message m makes parse return the        *)
(* failure 'Error executing callback for --<longName>: m', naming the long *)
(* name also for a flag given by its short alias.  Nothing later is        *)
(* processed, and the callbacks invoked and the values recorded so far,    *)
(* the failing flag's own value included, stay.                            *)
C6_Step(p) ==
    LET st == parse[p]
        st2 == parse'[p]
    IN  /\ (st.pc = "callback" /\ st2 # st) =>
            \A d \in DefsNamed(At(st.args, LastCall(st).at)) :
                d.callback.kind = "throws" =>
                    /\ st2.pc = "done"
                    /\ ~st2.success
                    /\ st2.error.kind = "Error executing callback for --: "
                    /\ st2.error.name = d.longName
                    /\ st2.error.message = d.callback.message
                    /\ st2.calls = st.calls
                    /\ st2.parsedArguments = st.parsedArguments
                    /\ d.longName \in DOMAIN st2.parsedArguments
        /\ (st.pc = "done" /\ st.error.kind = "Error executing callback for --: ")
                => st2 = st

C6_CallbackFailure == [][\A p \in Parsers : C6_Step(p)]_vars

\* C6 witness: the callback of a flag given as '-f' threw after another flag's
\* callback had run; both values are recorded and a token is left unprocessed.
C6_Witness ==
    \E p \in Parsers :
        /\ parse[p].pc = "done"
        /\ parse[p].error.kind = "Error executing callback for --: "
        /\ parse[p].error.name = <<"file">>
        /\ Len(parse[p].calls) = 2
        /\ parse[p].args[LastCall(parse[p]).at + 1] = <<"-", "f">>
        /\ DOMAIN parse[p].parsedArguments = {<<"out">>, <<"file">>}
        /\ LastCall(parse[p]).at + 1 < Len(parse[p].args)

----------------------------------------------------------------------------
(* C7: addArgument with a long name that is already registered throws the  *)
(* duplicate-long-name error and leaves the registry as it was; the short  *)
(* name of the rejected definition is not added to the short-name lookup.  *)
C7_DuplicateLongName ==
    [][\A o \in ArgumentOptions :
        (AddArgument(o) /\ o.longName \in RegisteredLongNames) =>
            /\ thrown' = [kind |-> "long name already exists", name |-> o.longName]
            /\ arguments' = arguments
            /\ shortNameMap' = shortNameMap
            /\ o.shortName \notin DOMAIN shortNameMap
                    => o.shortName \notin DOMAIN shortNameMap']_vars

\* C7 witness: a second 'help' with the fresh short name 'x' was rejected; 'h'
\* still resolves to the first and 'x' resolves to nothing.
C7_Witness ==
    /\ thrown = [kind |-> "long name already exists", name |-> <<"help">>]
    /\ <<"x">> \notin DOMAIN shortNameMap
    /\ shortNameMap[<<"h">>] = <<"help">>
    /\ arguments[1].longName = <<"help">> /\ arguments[1].callback.kind = "exits"

----------------------------------------------------------------------------
(* C8: addArgument with a new long name and a short name that is already   *)
(* registered throws the duplicate-short-name error and leaves the         *)
(* registry as it was: the new long name is not registered, so a later     *)
(* '--<newLongName>' is an unknown argument, and the short name still      *)
(* resolves to the earlier definition.                                     *)
C8_DuplicateShortName ==
    [][/\ \A o \in ArgumentOptions :
            (/\ AddArgument(o)
             /\ o.longName \notin RegisteredLongNames
             /\ o.shortName \in RegisteredShortNames) =>
                /\ thrown' = [kind |-> "short name already exists", name |-> o.shortName]
                /\ arguments' = arguments
                /\ shortNameMap' = shortNameMap
                /\ \A k \in 1..Len(arguments') : arguments'[k].longName # o.longName
                /\ shortNameMap'[o.shortName] # o.longName
       /\ \A p \in Parsers :
            (/\ WalkStep(p)
             /\ \E o \in ArgumentOptions :
                    /\ At(parse[p].args, parse[p].i) = <<"-", "-">> \o o.longName
                    /\ o.longName \notin RegisteredLongNames) =>
                /\ parse'[p].pc = "done"
                /\ parse'[p].error.kind = "Unknown argument: "]_vars

\* C8 witness: 'constructor' with short name 'o' was rejected because 'out' holds
\* 'o'; 'constructor' is not registered and 'o' still resolves to 'out'.
C8_Witness ==
    /\ thrown = [kind |-> "short name already exists", name |-> <<"o">>]
    /\ shortNameMap[<<"o">>] = <<"out">>
    /\ <<"constructor">> \notin RegisteredLongNames

----------------------------------------------------------------------------
(* C9: replacing a flag token '-<s>', s a registered short name of the     *)
(* definition d, by '--<d.longName>' does not change the outcome of parse: *)
(* the same success flag and error text, the same parsedArguments and the  *)
(* same callback invocations with the same values.                         *)
Replaced(args, k, tok) == [args EXCEPT ![k] = tok]

\* What a parse call leaves behind, apart from the tokens it was given.
Outcome(st) == [st EXCEPT !.args = << >>, !.remainingArgs = << >>, !.allArgs = << >>]

\* The 0-based positions the walk of a finished parse dispatched as flags.
DispatchedAt(st) ==
    { st.calls[j].at : j \in 1..Len(st.calls) } \cup
        (IF st.pc = "done" /\ st.error.kind \in RequiresKinds THEN {st.i} ELSE {})

\* C9 as claimed, for every token '-<s>' of the sequence
C9_AnyShortToken ==
    \A p \in Parsers :
        parse[p].pc \in {"done", "exited"} =>
            \A k \in 1..Len(parse[p].args) :
                \A n \in 1..Len(arguments) :
                    (/\ arguments[n].shortName # << >>
                     /\ parse[p].args[k] = <<"-">> \o arguments[n].shortName) =>
                        Outcome(ParseAlone(
                            Replaced(parse[p].args, k, <<"-", "-">> \o arguments[n].longName),
                            arguments, shortNameMap)) = Outcome(parse[p])

\* C9 amended: the same for a token '-<s>' that the walk reached as its current
\* token and resolved through the short-name lookup.  (A '-<s>' standing
\* where a fixed-arity flag wants a value is quoted in the error text.)
C9_ShortAlias ==
    \A p \in Parsers :
        parse[p].pc \in {"done", "exited"} =>
            \A k \in 1..Len(parse[p].args) :
                \A n \in 1..Len(arguments) :
                    (/\ arguments[n].shortName # << >>
                     /\ parse[p].args[k] = <<"-">> \o arguments[n].shortName
                     /\ parse[p].args[k][2] # "-"
                     /\ (k - 1) \in DispatchedAt(parse[p])) =>
                        Outcome(ParseAlone(
                            Replaced(parse[p].args, k, <<"-", "-">> \o arguments[n].longName),
                            arguments, shortNameMap)) = Outcome(parse[p])

\* C9 witness: a flag of arity 2 given as '-f' got its two values and the
\* parse succeeded.
C9_Witness ==
    \E p \in Parsers :
        /\ parse[p].pc = "done"
        /\ parse[p].success
        /\ parse[p].args = << <<"-", "f">>, <<"a">>, <<"b">> >>
        /\ Len(parse[p].calls) = 1
        /\ parse[p].calls[1].argValues = << <<"a">>, <<"b">> >>

----------------------------------------------------------------------------
(* C10: a definition that is required, has a default value and does not    *)
(* occur in the tokens gets parsedArguments[longName] = defaultValue from  *)
(* the post-parse pass of a parse whose walk does not fail, and its        *)
(* callback is never invoked in that parse.                                *)
C10_DefaultFilled ==
    \A p \in Parsers :
        WalkCompleted(parse[p]) =>
            \A n \in 1..Len(arguments) :
                (/\ arguments[n].required
                 /\ arguments[n].defaultValue.tag # "undefined"
                 /\ \A k \in 1..Len(parse[p].args) :
                        arguments[n] \notin DefsNamed(parse[p].args[k])) =>
                    /\ arguments[n].longName \in DOMAIN parse[p].parsedArguments
                    /\ parse[p].parsedArguments[arguments[n].longName]
                            = arguments[n].defaultValue
                    /\ \A j \in 1..Len(parse[p].calls) :
                            parse[p].calls[j].longName # arguments[n].longName

----------------------------------------------------------------------------
(* C11: every definition that has a default value, required or not, whose  *)
(* flag does not occur in the tokens has parsedArguments[longName] equal   *)
(* to its default value after a successful parse.                          *)
C11_DefaultWhenAbsent ==
    \A p \in Parsers :
        (parse[p].pc = "done" /\ parse[p].success) =>
            \A n \in 1..Len(arguments) :
                (/\ arguments[n].defaultValue.tag # "undefined"
                 /\ \A k \in 1..Len(parse[p].args) :
                        arguments[n] \notin DefsNamed(parse[p].args[k])) =>
                    /\ arguments[n].longName \in DOMAIN parse[p].parsedArguments
                    /\ parse[p].parsedArguments[arguments[n].longName]
                            = arguments[n].defaultValue

----------------------------------------------------------------------------
(* C12: every parser has 'help' with short name 'h' and arity 0, and the   *)
(* constructor's 'version' with short name 'v' exactly when a version was  *)
(* configured.  A later addArgument that uses one of these long or short   *)
(* names throws a duplicate-name error and leaves the registry, with the   *)
(* constructor's definitions, as it was.                                   *)
DefaultLongNames == {<<"help">>} \cup (IF version THEN {<<"version">>} ELSE {})

DefaultShortNames == {<<"h">>} \cup (IF version THEN {<<"v">>} ELSE {})

DefaultsInPlace ==
    /\ arguments[1] = HelpArgument
    /\ arguments[1].args = 0
    /\ shortNameMap[<<"h">>] = <<"help">>
    /\ version <=> (\E k \in 1..Len(arguments) : arguments[k] = VersionArgument)
    /\ version =>
        /\ arguments[2] = VersionArgument
        /\ shortNameMap[<<"v">>] = <<"version">>

----------------------------------------------------------------------------
(* C13: on a parser constructed with a name, a description and a version,  *)
(* addArgument of a flag with long name 'verbose' and short name 'v'       *)
(* completes without throwing and registers the definition; no callback    *)
(* is invoked by the registration.                                         *)
C13_VerboseRegisters ==
    [][\A o \in SetupOptions :
            (/\ AddArgument(o)
             /\ version
             /\ o.longName = Verbose
             /\ o.shortName = <<"v">>) =>
                /\ thrown' = NothingThrown
                /\ arguments' = Append(arguments, o)
                /\ shortNameMap'[<<"v">>] = Verbose
                /\ parse' = parse]_vars

----------------------------------------------------------------------------
(* C14: whenever a callback is invoked, the context it is handed has the   *)
(* configured name as command and the tokens of the parse as allArgs, and  *)
(* its parsedArguments holds the normalized value of the flag being        *)
(* dispatched and of exactly the flags whose tokens precede it: no entry   *)
(* for a flag that occurs only later, and no entry filled from a default.  *)

\* The long names of the definitions named by the tokens up to index i.
NamedUpTo(args, i) ==
    { d.longName : d \in UNION { DefsNamed(At(args, k)) : k \in 0..i } }

\* The last invocation of the callback of longName in a parse.
LastCallOf(st, longName) ==
    st.calls[CHOOSE j \in 1..Len(st.calls) :
                /\ st.calls[j].longName = longName
                /\ \A m \in (j + 1)..Len(st.calls) : st.calls[m].longName # longName]

C14_Context ==
    \A p \in Parsers :
        parse[p].pc = "callback" =>
            LET st == parse[p]
            IN  /\ st.command = CommandName
                /\ st.allArgs = st.args
                /\ st.pending.longName = LastCall(st).longName
                /\ LastCall(st).at = st.i
                /\ DOMAIN st.parsedArguments = NamedUpTo(st.args, st.i)
                /\ \A n \in DOMAIN st.parsedArguments :
                        st.parsedArguments[n] =
                            Normalized(GetArgument(arguments, n), LastCallOf(st, n).argValues)

\* C14 witness: the callback of 'file' is in flight with the value it was
\* given recorded, 'out' is registered and its flag stands later in the tokens.
C14_Witness ==
    \E p \in Parsers :
        /\ parse[p].pc = "callback"
        /\ parse[p].args = << <<"-", "-", "file">>, <<"a">>, <<"-", "-", "out">> >>
        /\ parse[p].i = 0
        /\ HasArgument(arguments, Out)
        /\ DOMAIN parse[p].parsedArguments = {File}
        /\ parse[p].parsedArguments[File] = StringValue(<<"a">>)

----------------------------------------------------------------------------
(* C15: within one parse the callbacks are invoked in the left-to-right    *)
(* order of their flag tokens, once per occurrence of a flag token.  The   *)
(* callback is awaited: while it is in flight the walk examines no token   *)
(* and starts no other callback, so at most one callback of a parse is in  *)
(* flight at any time.                                                     *)

\* The invocations so far are those of the flag tokens the walk has passed,
\* one each and in the order of the tokens.
InTokenOrder(st) ==
    /\ \A j \in 1..Len(st.calls) :
            /\ st.calls[j].longName \in
                    { d.longName : d \in DefsNamed(At(st.args, st.calls[j].at)) }
            /\ \A k \in (j + 1)..Len(st.calls) : st.calls[j].at < st.calls[k].at
    /\ \A k \in 0..(Len(st.args) - 1) :
            (/\ DefsNamed(At(st.args, k)) # {}
             /\ \/ k < st.i
                \/ k = st.i /\ st.pc \in {"callback", "exited"}) =>
                Cardinality({ j \in 1..Len(st.calls) : st.calls[j].at = k }) = 1

\* A callback is started only by the walk, at its current token, while no
\* callback is in flight; the step that ends a callback starts none and
\* resumes the walk behind the values of the flag.
Awaited(st, st2) ==
    /\ st.calls # st2.calls =>
            /\ st.pc = "loop"
            /\ st2.pc = "callback"
            /\ st2.calls = Append(st.calls, LastCall(st2))
            /\ LastCall(st2).at = st.i
            /\ st2.i = st.i
    /\ st.pc = "callback" =>
            /\ st2.calls = st.calls
            /\ st2.parsedArguments = st.parsedArguments
            /\ st2.pc \in {"loop", "done", "exited"}
            /\ st2.pc = "loop" => st2.i = st.pending.nextIndex

C15_OneAtATime ==
    /\ [](\A p \in Parsers : InTokenOrder(parse[p]))
    /\ [][\A p \in Parsers : parse'[p] # parse[p] => Awaited(parse[p], parse'[p])]_vars

\* C15 witness: the flag of 'out' occurred twice and the flag of 'file' after
\* them; the three callbacks were invoked at the positions 0, 1 and 2.
C15_Witness ==
    \E p \in Parsers :
        /\ parse[p].pc = "done"
        /\ Len(parse[p].calls) = 3
        /\ parse[p].calls[1].longName = Out /\ parse[p].calls[1].at = 0
        /\ parse[p].calls[2].longName = Out /\ parse[p].calls[2].at = 1
        /\ parse[p].calls[3].longName = File /\ parse[p].calls[3].at = 2

----------------------------------------------------------------------------
(* C16: whatever integer each registration was accepted with as args, a    *)
(* parse whose callbacks settle returns after finitely many steps, because *)
(* every iteration of the walk moves the cursor to a strictly larger       *)
(* index: after a successfully processed flag at index i the cursor is     *)
(* i + 1 + the number of value tokens handed to the callback.              *)
C16_Step(p) ==
    LET st == parse[p]
        st2 == parse'[p]
    IN  /\ (WalkStep(p) /\ st2.pc = "loop") => st2.i > st.i
        /\ ReturnStep(p) =>
                /\ st2.i = LastCall(st).at + 1 + Len(LastCall(st).argValues)
                /\ st2.i > st.i

C16_CursorForward == [][\A p \in Parsers : C16_Step(p)]_vars

----------------------------------------------------------------------------
(* C17: after the construction and any addArgument calls, failed ones      *)
(* included, every key s of the short-name lookup maps to a long name of   *)
(* the definitions map, the shortName of that definition is s, and no two  *)
(* definitions share a long name or a short name.  So no parse ends with   *)
(* 'Internal error: argument definition not found for <longName>'.         *)
C17_RegistryInvariant ==
    /\ \A s \in DOMAIN shortNameMap :
            /\ HasArgument(arguments, shortNameMap[s])
            /\ GetArgument(arguments, shortNameMap[s]).shortName = s
    /\ \A j, k \in 1..Len(arguments) :
            j # k =>
                /\ arguments[j].longName # arguments[k].longName
                /\ ~Falsy(arguments[j].shortName) =>
                        arguments[j].shortName # arguments[k].shortName
    /\ \A p \in Parsers : parse[p].error # InternalError(parse[p].error.name)

\* C17 witness: two definitions of the host are registered next to 'help',
\* and a parse has resolved the token '-f' through the short-name lookup.
C17_Witness ==
    \E p \in Parsers :
        /\ Len(arguments) >= 3
        /\ Cardinality(DOMAIN shortNameMap) >= 3
        /\ parse[p].pc = "done"
        /\ Len(parse[p].calls) >= 1
        /\ At(parse[p].args, parse[p].calls[1].at) = ShortFlag(<<"f">>)
        /\ parse[p].calls[1].longName = shortNameMap[<<"f">>]

----------------------------------------------------------------------------
(* C18: no step of a parse changes the definitions map or the short-name   *)
(* lookup, and every parse call works on a context of its own: of two      *)
(* parse calls on one parser, interleaved where they await their           *)
(* callbacks, each returns the result and builds the parsedArguments it    *)
(* returns when it runs alone; so a later parse sees nothing an earlier    *)
(* one recorded.                                                           *)
C18_Step(p) ==
    parse'[p] # parse[p] =>
        /\ arguments' = arguments
        /\ shortNameMap' = shortNameMap
        /\ \A q \in TwoParsers \ {p} : parse'[q] = parse[q]
        /\ parse'[p].pc \in {"done", "exited"} =>
                parse'[p] = ParseAlone(parse'[p].args, arguments, shortNameMap)

C18_OwnContext == [][\A p \in TwoParsers : C18_Step(p)]_vars

\* C18 witness: two parse calls with different tokens have both returned;
\* one was given a value for 'out', the other got the default of 'out' and
\* recorded 'file'.
C18_Witness ==
    /\ parse["p1"].pc = "done" /\ parse["p2"].pc = "done"
    /\ parse["p1"].success /\ parse["p2"].success
    /\ parse["p1"].args = << <<"-", "-", "file">>, <<"a">> >>
    /\ parse["p2"].args = << <<"-", "-", "out">>, <<"a">> >>
    /\ parse["p1"].parsedArguments[File] = StringValue(<<"a">>)
    /\ parse["p1"].parsedArguments[Out] = DefaultText
    /\ DOMAIN parse["p2"].parsedArguments = {Out}
    /\ parse["p2"].parsedArguments[Out] = ArrayValue(<< <<"a">> >>)

====
